---- MODULE Spec2Model ----
(***************************************************************************)
(* Model of src/app.py: the Streamlit script that resolves a deputy by     *)
(* name (buscar_deputado_id), fetches all of the deputy's expenses page by *)
(* page (buscar_todas_despesas) and aggregates them per category.          *)
(* One behaviour is one server process: a sequence of runs of the script,  *)
(* each started by a click on "Pesquisar Despesas", sharing the two        *)
(* st.cache_data caches.  The upstream API is the environment: every       *)
(* request is answered by a response chosen from a bounded set.            *)
(***************************************************************************)
EXTENDS Integers, Sequences, FiniteSets, TLC

VARIABLES
    pc,                 \* position of the script run
    execucoes,          \* number of runs started in this process
    nome_deputado,      \* content of the text input for the current run
    info_deputado,      \* value returned by buscar_deputado_id (None or <<record>>)
    pagina,             \* page counter of buscar_todas_despesas
    todas_despesas,     \* accumulator of buscar_todas_despesas
    lista_despesas,     \* value returned by buscar_todas_despesas
    response,           \* last upstream response received in the current run
    pedidos,            \* requests issued in the current run, in order
    paginas,            \* answers to the page requests of the current run, in order
    mensagens,          \* st.* message elements shown in the current run, in order
    excecao,            \* exception that left the script run unhandled ("" if none)
    despesas_agrupadas, \* the aggregated frame (None or <<sequence of rows>>)
    cache_deputado,     \* st.cache_data of buscar_deputado_id
    cache_despesas      \* st.cache_data of buscar_todas_despesas

vars == <<pc, execucoes, nome_deputado, info_deputado, pagina, todas_despesas,
          lista_despesas, response, pedidos, paginas, mensagens, excecao,
          despesas_agrupadas, cache_deputado, cache_despesas>>

----------------------------------------------------------------------------
(* Bounds of the model *)

\* runs of the script per process
MaxExecucoes == 2
\* pages requested per call of buscar_todas_despesas
MaxPagina == 3
\* records in an arbitrary page body
MaxItens == 1
\* deputies in a search result set
MaxResultados == 2
\* size of the short last page of the two-page scenario
TamParcial == 37

(* Program constants *)

\* 'itens': 100, the page size requested
Itens == 100

\* Python's None, and an optional value that is present
None == <<>>
Some(x) == <<x>>

----------------------------------------------------------------------------
(* Upstream data *)

\* what the user may have typed in st.text_input
Nomes == {"", "Maria", "Jose"}

\* entries of the remote directory, as the API lists them
Dep1 == [id |-> 204379, nome |-> "Maria do Rosario", siglaPartido |-> "PT", siglaUf |-> "RS"]
Dep2 == [id |-> 160000, nome |-> "Maria Arraes", siglaPartido |-> "SD", siglaUf |-> "PE"]
Deputados == {Dep1, Dep2}

\* expense records, as the API lists them (valorLiquido is upstream text)
Reg1 == [tipoDespesa |-> "Combustivel", valorLiquido |-> "150.00"]
Reg2 == [tipoDespesa |-> "Passagem Aerea", valorLiquido |-> "800.00"]
Reg3 == [tipoDespesa |-> "Combustivel", valorLiquido |-> "abc"]
\* the records the short page bodies are made of
Registros == {Reg1, Reg3}

\* sequences over S of length at most n
SeqAte(S, n) == UNION {[1..k -> S] : k \in 0..n}

\* a page of n numeric records of two categories
PaginaDe(n) == [i \in 1..n |-> IF i % 2 = 1 THEN Reg1 ELSE Reg2]

\* the data arrays upstream may answer a page request with
CorposPagina == SeqAte(Registros, MaxItens) \cup {PaginaDe(Itens), PaginaDe(TamParcial)}

\* the result sets upstream may answer a search with (no deputy listed twice)
CorposBusca ==
    {s \in SeqAte(Deputados, MaxResultados) :
        \A i, j \in 1..Len(s) : i # j => s[i] # s[j]}

\* causes of requests.exceptions.RequestException raised by requests.get /
\* raise_for_status
Causas == {"Timeout", "HTTPError"}

\* the rel values of the links array of a page: of a last page, of any other
LinksPossiveis == {{"self"}, {"self", "next"}}

Falha(c) == [classe |-> "RequestException", causa |-> c, chaves |-> {}, dados |-> <<>>, links |-> {}]
JSONInvalido == [classe |-> "JSONInvalido", causa |-> "JSONDecodeError", chaves |-> {}, dados |-> <<>>, links |-> {}]
Json(ch, d, l) == [classe |-> "JSON", causa |-> "", chaves |-> ch, dados |-> d, links |-> l]
SemResposta == [classe |-> "", causa |-> "", chaves |-> {}, dados |-> <<>>, links |-> {}]

\* every answer to GET /deputados
RespostasBusca ==
    {Falha(c) : c \in Causas} \cup {JSONInvalido, Json({}, <<>>, {})}
    \cup {Json({"dados"}, d, {}) : d \in CorposBusca}

\* every answer to GET /deputados/{id}/despesas
RespostasPagina ==
    {Falha(c) : c \in Causas} \cup {JSONInvalido, Json({}, <<>>, {})}
    \cup {Json({"dados", "links"}, d, l) : d \in CorposPagina, l \in LinksPossiveis}
    \cup {Json({"dados"}, d, {}) : d \in CorposPagina}

----------------------------------------------------------------------------
(* Messages and requests *)

Msg(nivel, texto, causa, pag) ==
    [nivel |-> nivel, texto |-> texto, causa |-> causa, pagina |-> pag, n |-> 0]

\* st.info(f"Total de {len(lista_despesas)} registros de despesa encontrados.")
MsgTotal(n) ==
    [nivel |-> "info", texto |-> "Total de registros de despesa encontrados", causa |-> "",
     pagina |-> 0, n |-> n]

\* a request issued: the search by name, a page of the expenses of id
PedidoBusca(nome) == [alvo |-> "deputados", nome |-> nome, id |-> 0, pagina |-> 0]
PedidoPagina(id, pag) == [alvo |-> "despesas", nome |-> "", id |-> id, pagina |-> pag]

\* st.cache_data: entries keyed by the argument, holding the returned value and
\* the st elements the call showed (replayed on a hit)
Chaves(cache) == {e.chave : e \in cache}
Entrada(cache, k) == CHOOSE e \in cache : e.chave = k
\* faulty variant of Guardar: a call that showed an error is not memoized
GuardarSoSucesso(cache, k, v, ms) ==
    IF ms = <<>> THEN cache \cup {[chave |-> k, valor |-> v, msgs |-> ms]} ELSE cache
Guardar(cache, k, v, ms) == cache \cup {[chave |-> k, valor |-> v, msgs |-> ms]}

----------------------------------------------------------------------------
(* buscar_deputado_id *)

\* outcome of a call: the value returned and the st elements shown, or the
\* exception that propagated out of it
Retorno(v, ms) == [levantou |-> "", valor |-> v, msgs |-> ms]
Levanta(e) == [levantou |-> e, valor |-> None, msgs |-> <<>>]

\* faulty variant of PrimeiroResultado: the record of the last search result
UltimoResultado(dados) ==
    [id |-> dados[Len(dados)].id, nome |-> dados[Len(dados)].nome,
     partido |-> dados[Len(dados)].siglaPartido, uf |-> dados[Len(dados)].siglaUf]
\* the identity record built from the first search result
PrimeiroResultado(dados) ==
    [id |-> dados[1].id, nome |-> dados[1].nome,
     partido |-> dados[1].siglaPartido, uf |-> dados[1].siglaUf]

\* faulty variant of BuscarDeputadoCorpo: dados[0] taken without testing the
\* result set, so that an empty one raises IndexError
BuscarDeputadoSemTeste(resp, jsonCapturado) ==
    IF resp.classe = "RequestException"
    THEN Retorno(None, <<Msg("error", "Erro ao buscar deputado", resp.causa, 0)>>)
    ELSE IF resp.classe = "JSONInvalido"
    THEN IF jsonCapturado
         THEN Retorno(None, <<Msg("error", "Erro ao buscar deputado", resp.causa, 0)>>)
         ELSE Levanta("JSONDecodeError")
    ELSE IF "dados" \notin resp.chaves
    THEN Levanta("KeyError")
    ELSE IF resp.dados # <<>>
    THEN Retorno(Some(PrimeiroResultado(resp.dados)), <<>>)
    ELSE Levanta("IndexError")
\* body of buscar_deputado_id for the response resp.  jsonCapturado: whether the
\* installed requests raises its own JSONDecodeError (a RequestException) from
\* response.json(), or the json module's ValueError, which the except clause
\* does not catch
BuscarDeputadoCorpo(resp, jsonCapturado) ==
    IF resp.classe = "RequestException"
    THEN Retorno(None, <<Msg("error", "Erro ao buscar deputado", resp.causa, 0)>>)
    ELSE IF resp.classe = "JSONInvalido"
    THEN IF jsonCapturado
         THEN Retorno(None, <<Msg("error", "Erro ao buscar deputado", resp.causa, 0)>>)
         ELSE Levanta("JSONDecodeError")
    ELSE IF "dados" \notin resp.chaves
    THEN Levanta("KeyError")
    ELSE IF resp.dados # <<>>
    THEN Retorno(Some(PrimeiroResultado(resp.dados)), <<>>)
    ELSE Retorno(None, <<>>)

----------------------------------------------------------------------------
(* buscar_todas_despesas *)

\* outcome of one iteration of the while loop: whether the loop goes on
\* ("continua"), the function returns ("retorna") or an exception propagates
\* ("excecao"), with the accumulator, the page counter and the st elements shown
Passo(saida, todas, pag, e, ms) ==
    [saida |-> saida, todas |-> todas, pagina |-> pag, levantou |-> e, msgs |-> ms]

\* faulty variant of Acumular: the page put in front of the accumulator
AcumularInvertido(todas, dados) == dados \o todas
\* todas_despesas.extend(dados['dados'])
Acumular(todas, dados) == todas \o dados

\* faulty variant of TemProxima: a full page taken as the sign of a next one
TemProximaPorTamanho(resp) == Len(resp.dados) = Itens
\* 'next' in links, links being the rel -> href dictionary of the page
TemProxima(resp) == "next" \in resp.links

\* faulty variant of DadosNaoVazios: the empty page not recognised
DadosNaoVaziosSemTeste(resp) == TRUE
\* truth value of dados['dados']
DadosNaoVazios(resp) == resp.dados # <<>>

\* faulty variant of AoFalhar: the failed page requested again
AoFalharRepete(todas, pag, causa) ==
    Passo("continua", todas, pag, "", <<Msg("error", "Erro ao buscar despesas", causa, pag)>>)
\* faulty variant of AoFalhar: the accumulator dropped on failure
AoFalharDescarta(todas, pag, causa) ==
    Passo("retorna", <<>>, pag, "", <<Msg("error", "Erro ao buscar despesas", causa, pag)>>)
\* the except clause: st.error naming the page, break
AoFalhar(todas, pag, causa) ==
    Passo("retorna", todas, pag, "", <<Msg("error", "Erro ao buscar despesas", causa, pag)>>)

\* faulty variant of Iteracao: the links read before the data array is tested,
\* an empty page with a "next" link followed
IteracaoLinksPrimeiro(todas, pag, resp, jsonCapturado) ==
    IF resp.classe = "RequestException"
    THEN AoFalhar(todas, pag, resp.causa)
    ELSE IF resp.classe = "JSONInvalido"
    THEN IF jsonCapturado
         THEN AoFalhar(todas, pag, resp.causa)
         ELSE Passo("excecao", todas, pag, "JSONDecodeError", <<>>)
    ELSE IF "dados" \notin resp.chaves
    THEN Passo("excecao", todas, pag, "KeyError", <<>>)
    ELSE IF "links" \notin resp.chaves
    THEN Passo("excecao", Acumular(todas, resp.dados), pag, "KeyError", <<>>)
    ELSE IF ~TemProxima(resp)
    THEN Passo("retorna", Acumular(todas, resp.dados), pag, "", <<>>)
    ELSE Passo("continua", Acumular(todas, resp.dados), pag + 1, "", <<>>)

\* one iteration of the while loop, for the response resp to the request of
\* page pag
Iteracao(todas, pag, resp, jsonCapturado) ==
    IF resp.classe = "RequestException"
    THEN AoFalhar(todas, pag, resp.causa)
    ELSE IF resp.classe = "JSONInvalido"
    THEN IF jsonCapturado
         THEN AoFalhar(todas, pag, resp.causa)
         ELSE Passo("excecao", todas, pag, "JSONDecodeError", <<>>)
    ELSE IF "dados" \notin resp.chaves
    THEN Passo("excecao", todas, pag, "KeyError", <<>>)
    ELSE IF DadosNaoVazios(resp)
    THEN IF "links" \notin resp.chaves
         THEN Passo("excecao", Acumular(todas, resp.dados), pag, "KeyError", <<>>)
         ELSE IF ~TemProxima(resp)
         THEN Passo("retorna", Acumular(todas, resp.dados), pag, "", <<>>)
         ELSE Passo("continua", Acumular(todas, resp.dados), pag + 1, "", <<>>)
    ELSE Passo("retorna", todas, pag, "", <<>>)

----------------------------------------------------------------------------
(* The script *)

Init ==
    /\ pc = "aguardando"
    /\ execucoes = 0
    /\ nome_deputado = ""
    /\ info_deputado = None
    /\ pagina = 0
    /\ todas_despesas = <<>>
    /\ lista_despesas = <<>>
    /\ response = SemResposta
    /\ pedidos = <<>>
    /\ paginas = <<>>
    /\ mensagens = <<>>
    /\ excecao = ""
    /\ despesas_agrupadas = None
    /\ cache_deputado = {}
    /\ cache_despesas = {}

\* the run has ended: normally, or with an unhandled exception
Terminado == pc \in {"aguardando", "fim", "excecao"}

\* faulty variant of Pesquisar: the name not tested before the search
PesquisarSemTeste(nome) ==
    /\ Terminado
    /\ execucoes < MaxExecucoes
    /\ execucoes' = execucoes + 1
    /\ nome_deputado' = nome
    /\ info_deputado' = None
    /\ pagina' = 0
    /\ todas_despesas' = <<>>
    /\ lista_despesas' = <<>>
    /\ response' = SemResposta
    /\ pedidos' = <<>>
    /\ paginas' = <<>>
    /\ excecao' = ""
    /\ despesas_agrupadas' = None
    /\ mensagens' = <<>>
    /\ pc' = "buscar_deputado_id"
    /\ UNCHANGED <<cache_deputado, cache_despesas>>

\* A click on "Pesquisar Despesas" with nome in the text input: a new run of
\* the script, up to the call of buscar_deputado_id
Pesquisar(nome) ==
    /\ Terminado
    /\ execucoes < MaxExecucoes
    /\ execucoes' = execucoes + 1
    /\ nome_deputado' = nome
    /\ info_deputado' = None
    /\ pagina' = 0
    /\ todas_despesas' = <<>>
    /\ lista_despesas' = <<>>
    /\ response' = SemResposta
    /\ pedidos' = <<>>
    /\ paginas' = <<>>
    /\ excecao' = ""
    /\ despesas_agrupadas' = None
    /\ IF nome = ""
       THEN /\ mensagens' = <<Msg("warning", "Por favor, digite um nome para a busca.", "", 0)>>
            /\ pc' = "fim"
       ELSE /\ mensagens' = <<>>
            /\ pc' = "buscar_deputado_id"
    /\ UNCHANGED <<cache_deputado, cache_despesas>>

\* buscar_deputado_id(nome_deputado) answered by st.cache_data
BuscarDeputadoCache ==
    /\ pc = "buscar_deputado_id"
    /\ nome_deputado \in Chaves(cache_deputado)
    /\ LET e == Entrada(cache_deputado, nome_deputado)
       IN  /\ info_deputado' = e.valor
           /\ mensagens' = mensagens \o e.msgs
    /\ pc' = "apos_deputado"
    /\ UNCHANGED <<execucoes, nome_deputado, pagina, todas_despesas, lista_despesas,
                   response, pedidos, paginas, excecao, despesas_agrupadas,
                   cache_deputado, cache_despesas>>

\* buscar_deputado_id(nome_deputado) executed: the search request and its answer
BuscarDeputadoId(resp, jsonCapturado) ==
    /\ pc = "buscar_deputado_id"
    /\ nome_deputado \notin Chaves(cache_deputado)
    /\ pedidos' = Append(pedidos, PedidoBusca(nome_deputado))
    /\ response' = resp
    /\ LET r == BuscarDeputadoCorpo(resp, jsonCapturado)
       IN  IF r.levantou # ""
           THEN /\ excecao' = r.levantou
                /\ pc' = "excecao"
                /\ UNCHANGED <<info_deputado, mensagens, cache_deputado>>
           ELSE /\ info_deputado' = r.valor
                /\ mensagens' = mensagens \o r.msgs
                /\ cache_deputado' = Guardar(cache_deputado, nome_deputado, r.valor, r.msgs)
                /\ pc' = "apos_deputado"
                /\ UNCHANGED excecao
    /\ UNCHANGED <<execucoes, nome_deputado, pagina, todas_despesas, lista_despesas,
                   paginas, despesas_agrupadas, cache_despesas>>

\* faulty variant of AposDeputado: the value of buscar_deputado_id not tested
AposDeputadoSemTeste ==
    /\ pc = "apos_deputado"
    /\ mensagens' = Append(mensagens, Msg("success", "Deputado encontrado", "", 0))
    /\ pc' = "buscar_todas_despesas"
    /\ UNCHANGED <<execucoes, nome_deputado, info_deputado, pagina, todas_despesas,
                   lista_despesas, response, pedidos, paginas, excecao, despesas_agrupadas,
                   cache_deputado, cache_despesas>>
\* the script after buscar_deputado_id returned
AposDeputado ==
    /\ pc = "apos_deputado"
    /\ IF info_deputado = None
       THEN /\ mensagens' = Append(mensagens,
                   Msg("error", "Nenhum deputado encontrado com esse nome. Tente novamente.", "", 0))
            /\ pc' = "fim"
       ELSE /\ mensagens' = Append(mensagens, Msg("success", "Deputado encontrado", "", 0))
            /\ pc' = "buscar_todas_despesas"
    /\ UNCHANGED <<execucoes, nome_deputado, info_deputado, pagina, todas_despesas,
                   lista_despesas, response, pedidos, paginas, excecao, despesas_agrupadas,
                   cache_deputado, cache_despesas>>

\* id_encontrado of the script
id_encontrado == info_deputado[1].id

\* buscar_todas_despesas(id_encontrado) answered by st.cache_data
BuscarDespesasCache ==
    /\ pc = "buscar_todas_despesas"
    /\ id_encontrado \in Chaves(cache_despesas)
    /\ LET e == Entrada(cache_despesas, id_encontrado)
       IN  /\ lista_despesas' = e.valor
           /\ mensagens' = mensagens \o e.msgs
    /\ pc' = "apos_despesas"
    /\ UNCHANGED <<execucoes, nome_deputado, info_deputado, pagina, todas_despesas,
                   response, pedidos, paginas, excecao, despesas_agrupadas,
                   cache_deputado, cache_despesas>>

\* buscar_todas_despesas(id_encontrado) entered: accumulator and page counter
BuscarTodasDespesas ==
    /\ pc = "buscar_todas_despesas"
    /\ id_encontrado \notin Chaves(cache_despesas)
    /\ todas_despesas' = <<>>
    /\ pagina' = 1
    /\ pc' = "while"
    /\ UNCHANGED <<execucoes, nome_deputado, info_deputado, lista_despesas, response,
                   pedidos, paginas, mensagens, excecao, despesas_agrupadas,
                   cache_deputado, cache_despesas>>

\* one iteration of the loop: the request of page pagina and its answer; on
\* break the function returns todas_despesas
PedirPagina(resp, jsonCapturado) ==
    /\ pc = "while"
    /\ pagina <= MaxPagina
    /\ pedidos' = Append(pedidos, PedidoPagina(id_encontrado, pagina))
    /\ paginas' = Append(paginas, resp)
    /\ response' = resp
    /\ LET r == Iteracao(todas_despesas, pagina, resp, jsonCapturado)
       IN  /\ todas_despesas' = r.todas
           /\ pagina' = r.pagina
           /\ mensagens' = mensagens \o r.msgs
           /\ excecao' = r.levantou
           /\ IF r.saida = "retorna"
              THEN /\ lista_despesas' = r.todas
                   /\ cache_despesas' = Guardar(cache_despesas, id_encontrado, r.todas, r.msgs)
                   /\ pc' = "apos_despesas"
              ELSE /\ pc' = IF r.saida = "continua" THEN "while" ELSE "excecao"
                   /\ UNCHANGED <<lista_despesas, cache_despesas>>
    /\ UNCHANGED <<execucoes, nome_deputado, info_deputado, despesas_agrupadas,
                   cache_deputado>>

----------------------------------------------------------------------------
(* Aggregation *)

\* the texts pd.to_numeric parses, with their value in centavos
Numericos == {"50.00", "150.00", "800.00"}
ParaNumero(s) ==
    CASE s = "50.00" -> 5000
      [] s = "150.00" -> 15000
      [] s = "800.00" -> 80000

\* lexical order of the category names, the order groupby lists its keys in
OrdemTipo(t) ==
    CASE t = "Combustivel" -> 1
      [] t = "Passagem Aerea" -> 2
      [] t = "Telefonia" -> 3

RECURSIVE SomaTipoSemFiltro(_, _, _, _)
\* faulty variant of SomaTipo: the records of every category summed
SomaTipoSemFiltro(df, t, lo, hi) ==
    IF lo > hi THEN 0
    ELSE IF lo = hi
    THEN ParaNumero(df[lo].valorLiquido)
    ELSE LET m == (lo + hi) \div 2
         IN  SomaTipoSemFiltro(df, t, lo, m) + SomaTipoSemFiltro(df, t, m + 1, hi)

RECURSIVE SomaTipo(_, _, _, _)
\* sum of the numeric valorLiquido of the records df[lo..hi] of category t
SomaTipo(df, t, lo, hi) ==
    IF lo > hi THEN 0
    ELSE IF lo = hi
    THEN (IF df[lo].tipoDespesa = t THEN ParaNumero(df[lo].valorLiquido) ELSE 0)
    ELSE LET m == (lo + hi) \div 2
         IN  SomaTipo(df, t, lo, m) + SomaTipo(df, t, m + 1, hi)

RECURSIVE EmOrdem(_)
\* the categories of the set ts as a sequence in ascending lexical order
EmOrdem(ts) ==
    IF ts = {} THEN <<>>
    ELSE LET m == CHOOSE t \in ts : \A u \in ts : OrdemTipo(t) <= OrdemTipo(u)
         IN  <<m>> \o EmOrdem(ts \ {m})

\* faulty variant of Agrupar: the keys listed in the order the records first
\* show them (groupby with sort=False)
AgruparPorEncontro(df) ==
    LET prim == {i \in 1..Len(df) : \A j \in 1..(i - 1) : df[j].tipoDespesa # df[i].tipoDespesa}
        ks == [n \in 1..Cardinality(prim) |->
                 df[CHOOSE i \in prim : Cardinality({j \in prim : j < i}) = n - 1].tipoDespesa]
    IN  [i \in 1..Len(ks) |-> [tipo |-> ks[i], total |-> SomaTipo(df, ks[i], 1, Len(df))]]

\* df.groupby('tipoDespesa')['valorLiquido'].sum().reset_index()
Agrupar(df) ==
    LET ks == EmOrdem({df[i].tipoDespesa : i \in 1..Len(df)})
    IN  [i \in 1..Len(ks) |-> [tipo |-> ks[i], total |-> SomaTipo(df, ks[i], 1, Len(df))]]

\* faulty variant of Inserir: the rows kept in ascending order of total
InserirCrescente(s, x) ==
    LET antes == {i \in 1..Len(s) : \A j \in 1..i : s[j].total < x.total}
        k == Cardinality(antes)
    IN  SubSeq(s, 1, k) \o <<x>> \o SubSeq(s, k + 1, Len(s))

\* row x placed in the descending sequence s, before the rows it ties with
Inserir(s, x) ==
    LET antes == {i \in 1..Len(s) : \A j \in 1..i : s[j].total > x.total}
        k == Cardinality(antes)
    IN  SubSeq(s, 1, k) \o <<x>> \o SubSeq(s, k + 1, Len(s))

RECURSIVE OrdenarDesc(_)
\* sort_values(by='Valor Total (R$)', ascending=False)
OrdenarDesc(s) ==
    IF s = <<>> THEN <<>> ELSE Inserir(OrdenarDesc(Tail(s)), Head(s))

\* faulty variant of AposDespesas: the list not tested before the aggregation
AposDespesasSemTeste ==
    /\ pc = "apos_despesas"
    /\ mensagens' = Append(mensagens, MsgTotal(Len(lista_despesas)))
    /\ pc' = "agregar"
    /\ UNCHANGED <<execucoes, nome_deputado, info_deputado, pagina, todas_despesas,
                   lista_despesas, response, pedidos, paginas, excecao, despesas_agrupadas,
                   cache_deputado, cache_despesas>>

\* the script after buscar_todas_despesas returned
AposDespesas ==
    /\ pc = "apos_despesas"
    /\ IF lista_despesas = <<>>
       THEN /\ mensagens' = Append(mensagens,
                   Msg("info", "Este deputado nao possui registros de despesas.", "", 0))
            /\ pc' = "fim"
       ELSE /\ mensagens' = Append(mensagens, MsgTotal(Len(lista_despesas)))
            /\ pc' = "agregar"
    /\ UNCHANGED <<execucoes, nome_deputado, info_deputado, pagina, todas_despesas,
                   lista_despesas, response, pedidos, paginas, excecao, despesas_agrupadas,
                   cache_deputado, cache_despesas>>

\* faulty variant of Agregar: to_numeric with errors='coerce', the non-numeric
\* records left out of the sums
AgregarCoerce ==
    /\ pc = "agregar"
    /\ despesas_agrupadas' = Some(OrdenarDesc(Agrupar(
            SelectSeq(lista_despesas, LAMBDA r : r.valorLiquido \in Numericos))))
    /\ pc' = "fim"
    /\ UNCHANGED <<execucoes, nome_deputado, info_deputado, pagina, todas_despesas,
                   lista_despesas, response, pedidos, paginas, mensagens, excecao,
                   cache_deputado, cache_despesas>>
\* the aggregation step: DataFrame, to_numeric, groupby/sum, sort, chart and table
Agregar ==
    /\ pc = "agregar"
    /\ IF \E i \in 1..Len(lista_despesas) : lista_despesas[i].valorLiquido \notin Numericos
       THEN /\ excecao' = "ValueError"
            /\ pc' = "excecao"
            /\ UNCHANGED despesas_agrupadas
       ELSE /\ despesas_agrupadas' = Some(OrdenarDesc(Agrupar(lista_despesas)))
            /\ pc' = "fim"
            /\ UNCHANGED excecao
    /\ UNCHANGED <<execucoes, nome_deputado, info_deputado, pagina, todas_despesas,
                   lista_despesas, response, pedidos, paginas, mensagens,
                   cache_deputado, cache_despesas>>

Next ==
    \/ \E nome \in Nomes : Pesquisar(nome)
    \/ BuscarDeputadoCache
    \/ \E resp \in RespostasBusca, jsonCapturado \in BOOLEAN : BuscarDeputadoId(resp, jsonCapturado)
    \/ AposDeputado
    \/ BuscarDespesasCache
    \/ BuscarTodasDespesas
    \/ \E resp \in RespostasPagina, jsonCapturado \in BOOLEAN : PedirPagina(resp, jsonCapturado)
    \/ AposDespesas
    \/ Agregar

Spec == Init /\ [][Next]_vars

----------------------------------------------------------------------------
(* The aggregation step on its own *)

\* records of the expense list handed to the aggregation step
MaxRegistros == 3

\* the categories and the records the lists are made of
Tipos == {"Combustivel", "Passagem Aerea", "Telefonia"}
RegistrosAgregacao ==
    {[tipoDespesa |-> t, valorLiquido |-> v] : t \in Tipos, v \in Numericos \cup {"abc"}}

\* the script at the aggregation step of its first run, the single page of the
\* deputy's expenses having been answered with the list l
InitAgregacao ==
    \E l \in SeqAte(RegistrosAgregacao, MaxRegistros) \ {<<>>} :
        /\ pc = "agregar"
        /\ execucoes = 1
        /\ nome_deputado = "Maria"
        /\ info_deputado = Some(PrimeiroResultado(<<Dep1>>))
        /\ pagina = 1
        /\ todas_despesas = l
        /\ lista_despesas = l
        /\ response = Json({"dados", "links"}, l, {"self"})
        /\ pedidos = <<PedidoBusca("Maria"), PedidoPagina(Dep1.id, 1)>>
        /\ paginas = <<Json({"dados", "links"}, l, {"self"})>>
        /\ mensagens = <<Msg("success", "Deputado encontrado", "", 0), MsgTotal(Len(l))>>
        /\ excecao = ""
        /\ despesas_agrupadas = None
        /\ cache_deputado = Guardar({}, "Maria", Some(PrimeiroResultado(<<Dep1>>)), <<>>)
        /\ cache_despesas = Guardar({}, Dep1.id, l, <<>>)

NextAgregacao == Agregar

SpecAgregacao == InitAgregacao /\ [][NextAgregacao]_vars

----------------------------------------------------------------------------
(* Vocabulary of the properties *)

\* the search requests and the page requests of the current run, in order
PedidosBusca == SelectSeq(pedidos, LAMBDA p : p.alvo = "deputados")
PedidosDespesas == SelectSeq(pedidos, LAMBDA p : p.alvo = "despesas")

\* a response whose JSON body carries a data array
TemDados(resp) == resp.classe = "JSON" /\ "dados" \in resp.chaves
\* a response that is a transport error
FalhaTransporte(resp) == resp.classe = "RequestException"
\* a successfully fetched non-empty page without / with a "next" link
UltimaPagina(resp) ==
    /\ TemDados(resp) /\ resp.dados # <<>>
    /\ "links" \in resp.chaves /\ "next" \notin resp.links
PaginaComNext(resp) ==
    /\ TemDados(resp) /\ resp.dados # <<>>
    /\ "links" \in resp.chaves /\ "next" \in resp.links
\* a successfully fetched page with an empty data array
PaginaVazia(resp) == TemDados(resp) /\ resp.dados = <<>>

\* buscar_todas_despesas was executed in the current run and has returned
DespesasRetornou ==
    /\ PedidosDespesas # <<>>
    /\ \/ pc \in {"apos_despesas", "agregar", "fim"}
       \/ pc = "excecao" /\ excecao = "ValueError"

RECURSIVE ConcatDados(_)
\* the data arrays of the successfully fetched pages of ps, one after the other
ConcatDados(ps) ==
    IF ps = <<>> THEN <<>>
    ELSE (IF TemDados(Head(ps)) THEN Head(ps).dados ELSE <<>>)
         \o ConcatDados(Tail(ps))

RECURSIVE SomaTamanhos(_)
\* the sum of the record counts of the successfully fetched pages of ps
SomaTamanhos(ps) ==
    IF ps = <<>> THEN 0
    ELSE (IF TemDados(Head(ps)) THEN Len(Head(ps).dados) ELSE 0)
         + SomaTamanhos(Tail(ps))

----------------------------------------------------------------------------
(* Properties *)

\* C1: whenever buscar_todas_despesas has returned, the list it returned is the
\* concatenation, in request order, of the data arrays of the pages fetched
\* successfully, and its length is the sum of their record counts; the
\* accumulator is that concatenation while the loop runs.
C1_ListaEhConcatenacao ==
    /\ DespesasRetornou =>
          /\ lista_despesas = ConcatDados(paginas)
          /\ Len(lista_despesas) = SomaTamanhos(paginas)
    /\ pc = "while" => todas_despesas = ConcatDados(paginas)

\* two different non-empty pages were fetched, then the call returned
C1_Witness ==
    /\ DespesasRetornou
    /\ Len(PedidosDespesas) >= 2
    /\ PaginaComNext(paginas[1])
    /\ TemDados(paginas[2])
    /\ paginas[2].dados # <<>>
    /\ paginas[1].dados # paginas[2].dados
    /\ Len(lista_despesas) = Len(paginas[1].dados)
                             + Len(paginas[2].dados)

\* C2: a successfully fetched non-empty page without a "next" link is the last
\* request of the call, full page or not, and the call has returned on it; with
\* a full page of 100 with "next" and then 37 records without "next", 2
\* requests are issued and 137 records returned.
C2_ParaSemNext ==
    /\ \A i \in 1..Len(PedidosDespesas) :
          UltimaPagina(paginas[i]) =>
             /\ i = Len(PedidosDespesas)
             /\ DespesasRetornou
    /\ ( /\ Len(PedidosDespesas) >= 2
         /\ paginas[1] = Json({"dados", "links"}, PaginaDe(Itens), {"self", "next"})
         /\ paginas[2] = Json({"dados", "links"}, PaginaDe(TamParcial), {"self"}) )
       => /\ Len(PedidosDespesas) = 2
          /\ DespesasRetornou
          /\ Len(lista_despesas) = Itens + TamParcial

\* the two-page scenario has run
C2_Witness ==
    /\ Len(PedidosDespesas) = 2
    /\ paginas[1] = Json({"dados", "links"}, PaginaDe(Itens), {"self", "next"})
    /\ paginas[2] = Json({"dados", "links"}, PaginaDe(TamParcial), {"self"})
    /\ pc = "apos_despesas"
    /\ Len(lista_despesas) = Itens + TamParcial

\* C3: when the request of page N fails with a transport error, it is the last
\* request of the call, the call has returned (no exception) the records of
\* pages 1..N-1, and an error naming page N and the cause is shown; the caller
\* holds those records.
C3_FalhaDevolveParcial ==
    \A i \in 1..Len(PedidosDespesas) :
        FalhaTransporte(paginas[i]) =>
           /\ i = Len(PedidosDespesas)
           /\ PedidosDespesas[i].pagina = i
           /\ DespesasRetornou
           /\ lista_despesas = ConcatDados(SubSeq(paginas, 1, i - 1))
           /\ \E k \in 1..Len(mensagens) :
                 mensagens[k] = Msg("error", "Erro ao buscar despesas",
                                    paginas[i].causa, i)
           /\ pc = "apos_despesas" => excecao = ""

\* page 3 failed after two non-empty pages, and the caller holds their records
C3_Witness ==
    /\ pc = "apos_despesas"
    /\ Len(PedidosDespesas) = 3
    /\ FalhaTransporte(paginas[3])
    /\ Len(lista_despesas) >= 2

\* the message the caller shows for a deputy without expense records, and the
\* one it shows when the search matched nobody
MsgSemRegistros == Msg("info", "Este deputado nao possui registros de despesas.", "", 0)
MsgNaoEncontrado ==
    Msg("error", "Nenhum deputado encontrado com esse nome. Tente novamente.", "", 0)
Mostrada(m) == \E k \in 1..Len(mensagens) : mensagens[k] = m

\* the search request of the current run was executed and `response` is its answer
RespostaDaBusca == PedidosBusca # <<>> /\ paginas = <<>>

\* C4: the caller never treats a failure of the request of page 1 as "this
\* deputy has no expense records".
C4_FalhaNaoEhSemRegistros ==
    (Len(paginas) >= 1 /\ FalhaTransporte(paginas[1])) => ~Mostrada(MsgSemRegistros)

\* C5: when the search request fails with a transport error, the outcome is
\* distinct from no-match (the cause is shown and the caller does not report
\* "no deputy found"), no expense request is issued and the search is not
\* retried.
C5_FalhaDaBuscaDistinta ==
    (RespostaDaBusca /\ FalhaTransporte(response)) =>
       /\ Len(PedidosBusca) = 1
       /\ PedidosDespesas = <<>>
       /\ pc \in {"apos_deputado", "fim"}
       /\ Mostrada(Msg("error", "Erro ao buscar deputado", response.causa, 0))
       /\ ~Mostrada(MsgNaoEncontrado)

\* C6: no run of the script ends with an exception propagating unhandled: not
\* the KeyError of a search or page body without its keys, not the ValueError
\* of a non-numeric valorLiquido.  (The error of a body that is not JSON is left
\* out: whether the except clauses catch it depends on the installed requests.)
C6_NenhumaExcecaoNaoTratada == ~(pc = "excecao" /\ excecao \in {"KeyError", "ValueError"})

\* C7: an iteration of the loop is followed by another exactly when its page is
\* non-empty and carries a "next" link (the page counter then grows by one); on
\* a page without "next", an empty page or a transport failure the function
\* returns its accumulator.
C7_ContinuaEnquantoHaNext ==
    [][(pc = "while" /\ paginas' # paginas) =>
          /\ (pc' = "while") <=> PaginaComNext(response')
          /\ PaginaComNext(response') => pagina' = pagina + 1
          /\ (UltimaPagina(response') \/ PaginaVazia(response') \/ FalhaTransporte(response'))
                => /\ pc' = "apos_despesas"
                   /\ lista_despesas' = todas_despesas'
                   /\ excecao' = ""]_vars

\* the loop went on over two pages with "next" and returned on an empty third
C7_Witness ==
    /\ pc = "apos_despesas"
    /\ Len(paginas) = 3
    /\ PaginaComNext(paginas[1])
    /\ PaginaComNext(paginas[2])
    /\ PaginaVazia(paginas[3])
    /\ "next" \in paginas[3].links

\* C8: for a non-empty result set buscar_deputado_id returns the identity record
\* of its first element (id, nome, siglaPartido as partido, siglaUf as uf); the
\* single match 204379 gives {204379, "Maria do Rosario", "PT", "RS"}.
C8_PrimeiroDoResultado ==
    /\ (RespostaDaBusca /\ TemDados(response) /\ response.dados # <<>>) =>
          info_deputado = <<[id |-> response.dados[1].id,
                             nome |-> response.dados[1].nome,
                             partido |-> response.dados[1].siglaPartido,
                             uf |-> response.dados[1].siglaUf]>>
    /\ (RespostaDaBusca /\ TemDados(response) /\ response.dados = <<Dep1>>) =>
          info_deputado = <<[id |-> 204379, nome |-> "Maria do Rosario",
                             partido |-> "PT", uf |-> "RS"]>>

\* a result set of two deputies was answered and the first one returned
C8_Witness ==
    /\ pc = "apos_deputado"
    /\ RespostaDaBusca
    /\ TemDados(response)
    /\ Len(response.dados) = 2
    /\ info_deputado # None
    /\ info_deputado[1].id = response.dados[1].id
    /\ info_deputado[1].id # response.dados[2].id

\* C9: for an empty result set buscar_deputado_id returns None, raises nothing
\* and shows no error of its own.
C9_VazioDevolveNone ==
    (RespostaDaBusca /\ TemDados(response) /\ response.dados = <<>>) =>
       /\ pc \in {"apos_deputado", "fim"}
       /\ excecao = ""
       /\ info_deputado = None
       /\ \A k \in 1..Len(mensagens) : mensagens[k].texto # "Erro ao buscar deputado"
       /\ Entrada(cache_deputado, nome_deputado).valor = None
       /\ Entrada(cache_deputado, nome_deputado).msgs = <<>>

\* buscar_deputado_id has just returned None for an empty result set
C9_Witness ==
    /\ pc = "apos_deputado"
    /\ RespostaDaBusca
    /\ TemDados(response)
    /\ response.dados = <<>>
    /\ info_deputado = None
    /\ mensagens = <<>>

\* C10: every expense-page request is issued after buscar_deputado_id returned
\* an identity record, after the search request, and for that record's id;
\* while the resolver's value is None no expense request is issued and the
\* script is nowhere in or after buscar_todas_despesas.
C10_OrdemDosEstagios ==
    /\ \A i \in 1..Len(pedidos) :
          pedidos[i].alvo = "despesas" =>
             /\ info_deputado # None
             /\ pedidos[i].id = info_deputado[1].id
             /\ \A j \in 1..Len(pedidos) : pedidos[j].alvo = "deputados" => j < i
    /\ info_deputado = None =>
          /\ PedidosDespesas = <<>>
          /\ despesas_agrupadas = None
          /\ pc \notin {"buscar_todas_despesas", "while", "apos_despesas", "agregar"}
          /\ excecao # "ValueError"

\* after the search, two pages were requested for the id of the deputy it resolved
C10_Witness ==
    /\ pc = "apos_despesas"
    /\ Len(pedidos) >= 3
    /\ pedidos[1] = PedidoBusca(nome_deputado)
    /\ pedidos[2] = PedidoPagina(Dep2.id, 1)
    /\ pedidos[3] = PedidoPagina(Dep2.id, 2)
    /\ info_deputado[1].id = Dep2.id

\* the expense list holds a record whose valorLiquido is not numeric
TemNaoNumerico ==
    \E i \in 1..Len(lista_despesas) : lista_despesas[i].valorLiquido \notin Numericos

\* C11: when a record of the list has a non-numeric valorLiquido, the
\* aggregation produces no frame at all (none from the numeric records either)
\* and the run does not end normally: it stops with the ValueError.
C11_AbortaSemParcial ==
    TemNaoNumerico =>
       /\ despesas_agrupadas = None
       /\ pc # "fim"
       /\ pc = "excecao" => excecao = "ValueError"

\* the aggregation of a list with numeric and non-numeric records has aborted
C11_Witness ==
    /\ pc = "excecao"
    /\ excecao = "ValueError"
    /\ TemNaoNumerico
    /\ \E i \in 1..Len(lista_despesas) : lista_despesas[i].valorLiquido \in Numericos
    /\ despesas_agrupadas = None

\* the aggregation of the current run has produced its frame
Agregou == pc = "fim" /\ despesas_agrupadas # None

\* number of records of df of category t with the amount text v
Contagem(df, t, v) ==
    Cardinality({i \in 1..Len(df) : df[i].tipoDespesa = t /\ df[i].valorLiquido = v})

RECURSIVE TotalDoTipo(_, _, _)
\* the amounts of the records of df of category t, added up value by value
TotalDoTipo(df, t, vs) ==
    IF vs = {} THEN 0
    ELSE LET v == CHOOSE x \in vs : TRUE
         IN  ParaNumero(v) * Contagem(df, t, v) + TotalDoTipo(df, t, vs \ {v})

RECURSIVE TotalGeral(_, _)
\* the amounts of all the records of df, added up category by category
TotalGeral(df, ts) ==
    IF ts = {} THEN 0
    ELSE LET t == CHOOSE x \in ts : TRUE
         IN  TotalDoTipo(df, t, Numericos) + TotalGeral(df, ts \ {t})

RECURSIVE SomaTotais(_)
\* the totals of the rows of an aggregated frame, added up
SomaTotais(rows) ==
    IF rows = <<>> THEN 0 ELSE Head(rows).total + SomaTotais(Tail(rows))

\* C12: the totals of the aggregated rows add up to the sum of valorLiquido
\* over all the records, and the total of each row is the sum of valorLiquido
\* over the records of its category.  (Amounts are exact, in centavos.)
C12_SomaPreservada ==
    Agregou =>
       /\ SomaTotais(despesas_agrupadas[1]) = TotalGeral(lista_despesas, Tipos)
       /\ \A k \in 1..Len(despesas_agrupadas[1]) :
             despesas_agrupadas[1][k].total =
                TotalDoTipo(lista_despesas, despesas_agrupadas[1][k].tipo, Numericos)

\* a list of three records of two categories, two of one category, was aggregated
C12_Witness ==
    /\ Agregou
    /\ Len(lista_despesas) = 3
    /\ Len(despesas_agrupadas[1]) = 2
    /\ lista_despesas[1].tipoDespesa = lista_despesas[3].tipoDespesa
    /\ lista_despesas[1].valorLiquido # lista_despesas[3].valorLiquido
    /\ SomaTotais(despesas_agrupadas[1]) = TotalGeral(lista_despesas, Tipos)

\* the records of the specification's scenario C
CenarioC ==
    << [tipoDespesa |-> "Combustivel", valorLiquido |-> "150.00"],
       [tipoDespesa |-> "Combustivel", valorLiquido |-> "50.00"],
       [tipoDespesa |-> "Passagem Aerea", valorLiquido |-> "800.00"] >>

\* C13: the aggregated frame has exactly one row per distinct tipoDespesa of
\* the records, its rows are in non-increasing order of total, and the records
\* of scenario C give (Passagem Aerea, 800.00) followed by (Combustivel, 200.00).
C13_UmaLinhaPorTipoDecrescente ==
    Agregou =>
       LET ag == despesas_agrupadas[1]
       IN  /\ {ag[k].tipo : k \in 1..Len(ag)} =
                 {lista_despesas[i].tipoDespesa : i \in 1..Len(lista_despesas)}
           /\ \A j, k \in 1..Len(ag) :
                 j < k => /\ ag[j].tipo # ag[k].tipo
                          /\ ag[j].total >= ag[k].total
           /\ lista_despesas = CenarioC =>
                 ag = << [tipo |-> "Passagem Aerea", total |-> 80000],
                         [tipo |-> "Combustivel", total |-> 20000] >>

\* the records of scenario C were aggregated into two rows
C13_Witness ==
    /\ Agregou
    /\ lista_despesas = CenarioC
    /\ Len(despesas_agrupadas[1]) = 2
    /\ despesas_agrupadas[1][1].tipo = "Passagem Aerea"

\* the sequences with the elements of s in every order
Permutacoes(s) ==
    LET n == Len(s)
        bij == {p \in [1..n -> 1..n] : \A i, j \in 1..n : p[i] = p[j] => i = j}
    IN  {[i \in 1..n |-> s[p[i]]] : p \in bij}

C15_PaginasEmSequencia ==
    /\ Len(paginas) = Len(PedidosDespesas)
    /\ \A i \in 1..Len(PedidosDespesas) :
          /\ PedidosDespesas[i].pagina = i
          /\ PedidosDespesas[i].id = id_encontrado
          /\ i < Len(PedidosDespesas) => PaginaComNext(paginas[i])
    /\ pc = "while" => pagina = Len(PedidosDespesas) + 1
    /\ pc = "while" /\ paginas # <<>> => PaginaComNext(paginas[Len(paginas)])

\* pages 1, 2 and 3 were requested, the third request failed and the call
\* returned without asking for it again
C15_Witness ==
    /\ pc = "apos_despesas"
    /\ Len(PedidosDespesas) = 3
    /\ PedidosDespesas[1].pagina = 1
    /\ PedidosDespesas[2].pagina = 2
    /\ PedidosDespesas[3].pagina = 3
    /\ FalhaTransporte(paginas[3])
    /\ Len(paginas) = 3

\* C16: a successfully fetched page with an empty data array is the last
\* request of the call, whether or not it carries a "next" link or any links
\* at all; the call has returned (no exception) the records of the pages before
\* it, nothing appended, and no error is shown.
C16_PaginaVaziaTermina ==
    \A i \in 1..Len(paginas) :
        PaginaVazia(paginas[i]) =>
           /\ i = Len(paginas)
           /\ DespesasRetornou
           /\ todas_despesas = ConcatDados(SubSeq(paginas, 1, i - 1))
           /\ lista_despesas = todas_despesas
           /\ \A k \in 1..Len(mensagens) : mensagens[k].nivel # "error"

\* page 2 came empty with a "next" link after a non-empty page 1, and the call
\* returned the records of page 1
C16_Witness ==
    /\ pc = "apos_despesas"
    /\ Len(paginas) = 2
    /\ PaginaVazia(paginas[2])
    /\ "next" \in paginas[2].links
    /\ lista_despesas = paginas[1].dados
    /\ lista_despesas # <<>>

\* no two entries of a cache under the same key
ChavesUnicas(cache) == \A e, f \in cache : e.chave = f.chave => e = f

\* C17: a call of buscar_todas_despesas or buscar_deputado_id that returns is
\* memoized under its argument with the value it returned, a partial list after
\* a page failure and a None after a failed search included; an entry never
\* changes or goes away; and a call whose argument is memoized returns the
\* entry's value and issues no request.
C17_MemorizaTambemFalhas ==
    /\ [](ChavesUnicas(cache_despesas) /\ ChavesUnicas(cache_deputado))
    /\ [][/\ cache_despesas \subseteq cache_despesas'
          /\ cache_deputado \subseteq cache_deputado'
          /\ (pc = "while" /\ pc' = "apos_despesas") =>
                \E e \in cache_despesas' :
                    e.chave = id_encontrado /\ e.valor = lista_despesas'
          /\ (pc = "buscar_deputado_id" /\ pc' = "apos_deputado" /\ pedidos' # pedidos) =>
                \E e \in cache_deputado' :
                    e.chave = nome_deputado /\ e.valor = info_deputado'
          /\ (pc = "buscar_todas_despesas" /\ id_encontrado \in Chaves(cache_despesas)) =>
                /\ lista_despesas' = Entrada(cache_despesas, id_encontrado).valor
                /\ pedidos' = pedidos
                /\ pc' = "apos_despesas"
          /\ (pc = "buscar_deputado_id" /\ nome_deputado \in Chaves(cache_deputado)) =>
                /\ info_deputado' = Entrada(cache_deputado, nome_deputado).valor
                /\ pedidos' = pedidos
                /\ pc' = "apos_deputado"]_vars

\* a second search of the same name got the partial list a failed page left
\* memoized in the first run, without any request
C17_Witness ==
    /\ execucoes = 2
    /\ pc = "apos_despesas"
    /\ pedidos = <<>>
    /\ lista_despesas # <<>>
    /\ Entrada(cache_despesas, id_encontrado).valor = lista_despesas
    /\ Entrada(cache_despesas, id_encontrado).msgs # <<>>

\* the warning shown for an empty name
MsgNomeVazio == Msg("warning", "Por favor, digite um nome para a busca.", "", 0)

\* C18: a search triggered with an empty name ends the run with the warning
\* alone: no request of either kind, no deputy, no list, no aggregation; and
\* buscar_deputado_id is never called, answered or memoized with an empty name.
C18_NomeVazioNaoBusca ==
    /\ (execucoes > 0 /\ nome_deputado = "") =>
          /\ pc = "fim"
          /\ mensagens = <<MsgNomeVazio>>
          /\ pedidos = <<>>
          /\ paginas = <<>>
          /\ info_deputado = None
          /\ lista_despesas = <<>>
          /\ despesas_agrupadas = None
    /\ pc = "buscar_deputado_id" => nome_deputado # ""
    /\ \A i \in 1..Len(PedidosBusca) : PedidosBusca[i].nome # ""
    /\ "" \notin Chaves(cache_deputado)

\* after a first search that reached upstream, a second one with an empty name
\* ended with the warning
C18_Witness ==
    /\ execucoes = 2
    /\ nome_deputado = ""
    /\ pc = "fim"
    /\ mensagens = <<MsgNomeVazio>>
    /\ pedidos = <<>>
    /\ cache_deputado # {}

\* the run went past the test of the list returned by buscar_todas_despesas
PassouDasDespesas ==
    /\ info_deputado # None
    /\ \/ pc \in {"agregar", "fim"}
       \/ pc = "excecao" /\ excecao = "ValueError"

\* C19: the aggregation is entered, raises or yields a frame only for a
\* non-empty list; for an empty list the run ends on the message that the
\* deputy has no expense records, with no total shown and no frame.
C19_SoAgregaListaNaoVazia ==
    /\ pc = "agregar" => lista_despesas # <<>>
    /\ despesas_agrupadas # None => lista_despesas # <<>>
    /\ (PassouDasDespesas /\ lista_despesas # <<>>) =>
          /\ Mostrada(MsgTotal(Len(lista_despesas)))
          /\ ~Mostrada(MsgSemRegistros)
    /\ (PassouDasDespesas /\ lista_despesas = <<>>) =>
          /\ pc = "fim"
          /\ mensagens[Len(mensagens)] = MsgSemRegistros
          /\ despesas_agrupadas = None
          /\ \A k \in 1..Len(mensagens) : mensagens[k].texto # MsgTotal(0).texto

\* the first page came empty without any failure and the run ended on the
\* message that the deputy has no expense records
C19_Witness ==
    /\ pc = "fim"
    /\ Len(paginas) = 1
    /\ PaginaVazia(paginas[1])
    /\ lista_despesas = <<>>
    /\ mensagens[Len(mensagens)] = MsgSemRegistros
    /\ despesas_agrupadas = None

====
